---- MODULE Spec2Model ----
(***************************************************************************)
(* Multi-armed bandit simulation of UpperConfidenceBound.py: Bernoulli     *)
(* arms, the BanditRewardsLog ledger, the Epsilon-Greedy / UCB1 /          *)
(* UCB1-Tuned / UCB1-Normal agents, compare_agents and run_comparison_ucb. *)
(*                                                                         *)
(* Numbers.  Probabilities, epsilon and uniform draws are in thousandths.  *)
(* Rewards are integers.  A confidence index is a float in the source; it  *)
(* is computed here in thousandths with floor division, a natural-log      *)
(* table in millionths and an integer square root.  Sample means of the    *)
(* Epsilon-Greedy agent are compared exactly, as fractions.                *)
(***************************************************************************)
EXTENDS Integers, Sequences, FiniteSets, TLC

(***************************************************************************)
(* State.                                                                  *)
(***************************************************************************)
VARIABLES
  agents,   \* agent id -> [kind, epsilon, bound, bandits, initialised]
  logs,     \* agent id -> its BanditRewardsLog
  calls,    \* agent id -> the <<arm, reward>> pairs given to record_action, in order
  last,     \* the last call made and how it ended
  run,      \* the activation of compare_agents
  trial,    \* the activation of run_comparison_ucb
  arms,     \* arm id -> the fields of the Bandit object
  probe     \* the last call of a function on its own: its name, input and result

(***************************************************************************)
(* Bounds of the model.                                                    *)
(***************************************************************************)
\* cap on the total_actions of one ledger in Spec and SpecDet
MaxActions == 4

(***************************************************************************)
(* Arms.  An arm is identified with its id: uuid4() gives every Bandit     *)
(* object its own id, and the ledger is keyed by it.  Arms 1, 2 are the    *)
(* arms of a run; arms 4, 3 are the same arms constructed again (same      *)
(* success probability, another id, in the opposite id order).             *)
(***************************************************************************)
ArmP == <<500, 1000, 1000, 500>>

Arms == DOMAIN ArmP

Bandits == {1, 2}

Replica(b) == 5 - b

\* the values np.random.uniform / the binomial sampler's uniform may take
Draws == {100, 700}

\* rewards handed to record_action by a direct caller
RewardValues == {0, 1}

\* BernoulliBandit.pull with the sampler's uniform draw u
pull(b, u) == IF u < arms[b].p THEN 1 ELSE 0

\* the arm lists a caller may bind: the empty list and every list of distinct
\* arms of Bandits
ArmLists == {<<>>, <<1>>, <<2>>, <<1, 2>>, <<2, 1>>}

\* the values the stream gives np.random.choice
Choices == {1, 2}

(***************************************************************************)
(* Arithmetic.                                                             *)
(***************************************************************************)
\* np.log(N) in millionths, N = 1..80
LnMicro == <<0, 693147, 1098612, 1386294, 1609438, 1791759, 1945910, 2079442,
             2197225, 2302585, 2397895, 2484907, 2564949, 2639057, 2708050,
             2772589, 2833213, 2890372, 2944439, 2995732, 3044522, 3091042,
             3135494, 3178054, 3218876, 3258097, 3295837, 3332205, 3367296,
             3401197, 3433987, 3465736, 3496508, 3526361, 3555348, 3583519,
             3610918, 3637586, 3663562, 3688879, 3713572, 3737670, 3761200,
             3784190, 3806662, 3828641, 3850148, 3871201, 3891820, 3912023,
             3931826, 3951244, 3970292, 3988984, 4007333, 4025352, 4043051,
             4060443, 4077537, 4094345, 4110874, 4127134, 4143135, 4158883,
             4174387, 4189655, 4204693, 4219508, 4234107, 4248495, 4262680,
             4276666, 4290459, 4304065, 4317488, 4330733, 4343805, 4356709,
             4369448, 4382027>>

RECURSIVE SqrtBetween(_, _, _)
SqrtBetween(x, lo, hi) ==
  IF lo = hi THEN lo
  ELSE LET mid == (lo + hi + 1) \div 2
       IN  IF mid * mid <= x THEN SqrtBetween(x, mid, hi)
           ELSE SqrtBetween(x, lo, mid - 1)

\* np.sqrt on a non-negative argument, rounded down
sqrt(x) == SqrtBetween(x, 0, 46340)

Min(x, y) == IF x <= y THEN x ELSE y

Max(x, y) == IF x >= y THEN x ELSE y

\* np.ceil(x / d) for x >= 0, d > 0
CeilDiv(x, d) == (x + d - 1) \div d

\* x < y for fractions <<numerator, denominator>> with positive denominators
Less(x, y) == x[1] * y[2] < y[1] * x[2]

\* the last position holding the maximum
MutArgmaxLast(est) ==
  CHOOSE i \in 1..Len(est) :
    /\ \A j \in 1..Len(est) : ~Less(est[i], est[j])
    /\ \A j \in (i + 1)..Len(est) : Less(est[j], est[i])

\* np.argmax: the first position holding the maximum
argmax(est) ==
  CHOOSE i \in 1..Len(est) :
    /\ \A j \in 1..Len(est) : ~Less(est[i], est[j])
    /\ \A j \in 1..(i - 1) : Less(est[j], est[i])

(***************************************************************************)
(* BanditRewardsLog.                                                       *)
(***************************************************************************)
\* the defaultdict's factory
EmptyRecord == [actions |-> 0, reward |-> 0, reward_squared |-> 0]

\* BanditRewardsLog.__init__
NewLog == [total_actions |-> 0, total_rewards |-> 0, all_rewards |-> <<>>,
           record |-> [b \in {} |-> EmptyRecord]]

\* the value __getitem__ returns
getitem(log, b) == IF b \in DOMAIN log.record THEN log.record[b] ELSE EmptyRecord

\* a lookup of a new key that leaves the zeroed record as the only one
MutTouchClears(log, b) ==
  IF b \in DOMAIN log.record THEN log
  ELSE [log EXCEPT !.record = (b :> EmptyRecord)]

\* the effect of __getitem__: the defaultdict stores a zeroed record for a new key
Touch(log, b) ==
  IF b \in DOMAIN log.record THEN log
  ELSE [log EXCEPT !.record = (b :> EmptyRecord) @@ @]

RECURSIVE TouchAll(_, _)
TouchAll(log, bs) ==
  IF bs = <<>> THEN log ELSE TouchAll(Touch(log, Head(bs)), Tail(bs))

\* record_action without the total_actions update
MutRecordActionNoTotal(log, b, r) ==
  LET l == Touch(log, b)
  IN  [l EXCEPT !.total_rewards = @ + r,
                !.all_rewards = Append(@, r),
                !.record[b] = [actions |-> @.actions + 1,
                               reward |-> @.reward + r,
                               reward_squared |-> @.reward_squared + r * r]]

\* BanditRewardsLog.record_action
record_action(log, b, r) ==
  LET l == Touch(log, b)
  IN  [l EXCEPT !.total_actions = @ + 1,
                !.total_rewards = @ + r,
                !.all_rewards = Append(@, r),
                !.record[b] = [actions |-> @.actions + 1,
                               reward |-> @.reward + r,
                               reward_squared |-> @.reward_squared + r * r]]

\* bandit.pull() followed by record_action for each arm of bs, with draws us
RECURSIVE PullAll(_, _, _)
PullAll(log, bs, us) ==
  IF bs = <<>> THEN log
  ELSE PullAll(record_action(log, Head(bs), pull(Head(bs), Head(us))), Tail(bs), Tail(us))

\* the <<arm, reward>> pairs of those pulls
PullPairs(bs, us) == [i \in 1..Len(bs) |-> <<bs[i], pull(bs[i], us[i])>>]

(***************************************************************************)
(* Agents.                                                                 *)
(***************************************************************************)
Kinds == {"EpsilonGreedy", "UCB1", "UCB1Tuned", "UCB1Normal"}

UCBKinds == {"UCB1", "UCB1Tuned", "UCB1Normal"}

\* epsilon = None
NoneEps == -1

Epsilons == {NoneEps, 0, 500}

\* Agent.__init__ / EpsilonGreedyAgent.__init__ / UCBAgent.__init__
NewAgent(k, e) == [kind |-> k, epsilon |-> e, bound |-> FALSE, bandits |-> <<>>,
                   initialised |-> FALSE]

AgentConfigs == {NewAgent("EpsilonGreedy", e) : e \in Epsilons}
                  \cup {NewAgent(k, NoneEps) : k \in UCBKinds}

\* the bandits property raises NoBanditsError: _bandits is None or empty
NoBandits(ag) == Len(ag.bandits) = 0

\* the outcome of one call on an agent
Outcome(e, l, b, r, x, i, p) ==
  [err |-> e, log |-> l, arm |-> b, reward |-> r, explored |-> x, idx |-> i, pulls |-> p]

Raise(e, l, i) == Outcome(e, l, 0, 0, FALSE, i, <<>>)

\* the pull recorded twice
MutPullAndRecordTwice(l, b, u, x, i) ==
  LET r == pull(b, u)
  IN  Outcome("none", record_action(record_action(l, b, r), b, r), b, r, x, i,
              <<<<b, r>>, <<b, r>>>>)

\* current_bandit.pull(); rewards_log.record_action(current_bandit, reward)
PullAndRecord(l, b, u, x, i) ==
  LET r == pull(b, u)
  IN  Outcome("none", record_action(l, b, r), b, r, x, i, <<<<b, r>>>>)

\* a choice made among the ids in increasing order instead of in list order
MutChoiceById(xs, c) ==
  LET ids == {xs[i] : i \in 1..Len(xs)}
      k == ((c - 1) % Len(xs)) + 1
  IN  IF Cardinality(ids) < Len(xs) THEN xs[k]
      ELSE CHOOSE b \in ids : Cardinality({d \in ids : d <= b}) = k

\* np.random.choice(xs) with the stream giving c
choice(xs, c) == xs[((c - 1) % Len(xs)) + 1]

----
\* EpsilonGreedyAgent

\* the estimates with a never-pulled arm below every sample mean
MutEstimatesUnpulledLowest(ag, log) ==
  [i \in 1..Len(ag.bandits) |->
     LET rec == getitem(log, ag.bandits[i])
     IN  IF rec.actions = 0 THEN <<0 - 1000, 1>> ELSE <<rec.reward, rec.actions>>]

\* the estimates list of _get_current_best_bandit
EG_estimates(ag, log) ==
  [i \in 1..Len(ag.bandits) |->
     LET rec == getitem(log, ag.bandits[i])
     IN  IF rec.actions = 0 THEN <<0, 1>> ELSE <<rec.reward, rec.actions>>]

EG_get_current_best_bandit(ag, log) == ag.bandits[argmax(EG_estimates(ag, log))]

\* p < epsilon in _choose_bandit, epsilon = self.epsilon or 1 / (1 + total_actions)
EG_explores(ag, log, p) ==
  IF ag.epsilon = NoneEps \/ ag.epsilon = 0
  THEN p * (1 + log.total_actions) < 1000
  ELSE p < ag.epsilon

EG_take_action(ag, log, p, c, u) ==
  IF NoBandits(ag) THEN Raise("NoBanditsError", log, {})
  ELSE IF EG_explores(ag, log, p)
       THEN PullAndRecord(log, choice(ag.bandits, c), u, TRUE, {})
       ELSE PullAndRecord(TouchAll(log, ag.bandits), EG_get_current_best_bandit(ag, log),
                          u, FALSE, {})

----
\* UCB agents

\* the index without the factor 2 under the root
MutUCB1IndexNoFactor(rec, N) ==
  LET sample_mean == (rec.reward * 1000) \div rec.actions
      c == sqrt(LnMicro[N] \div rec.actions)
  IN  sample_mean + c

\* UCB1Agent.calculate_bandit_index, in thousandths
UCB1_calculate_bandit_index(rec, N) ==
  LET sample_mean == (rec.reward * 1000) \div rec.actions
      c == sqrt((2 * LnMicro[N]) \div rec.actions)
  IN  sample_mean + c

\* UCB1TunedAgent.calculate_bandit_index, in thousandths
UCB1Tuned_calculate_bandit_index(rec, N) ==
  LET n == rec.actions
      sample_mean == (rec.reward * 1000) \div n
      variance_bound == (rec.reward_squared * 1000) \div n
                          - (sample_mean * sample_mean) \div 1000
                          + sqrt((2 * LnMicro[N]) \div n)
      c == sqrt((Min(variance_bound, 250) * LnMicro[N]) \div (1000 * n))
  IN  sample_mean + c

\* UCB1NormalAgent.calculate_bandit_index, in thousandths.  It is evaluated only for
\* n >= 3 (see UCB1Normal_take_action).  The sample variance is not negative in
\* exact arithmetic; Max keeps the floor divisions from making it so.
UCB1Normal_calculate_bandit_index(rec, N) ==
  LET n == rec.actions
      sample_mean == (rec.reward * 1000) \div n
      sample_variance == (rec.reward_squared * 1000 - (n * sample_mean * sample_mean) \div 1000)
                           \div (n - 1)
      c == sqrt((16 * Max(sample_variance, 0) * (LnMicro[N - 1] \div 1000)) \div n)
  IN  sample_mean + c

calculate_bandit_index(ag, rec, N) ==
  CASE ag.kind = "UCB1" -> UCB1_calculate_bandit_index(rec, N)
    [] ag.kind = "UCB1Tuned" -> UCB1Tuned_calculate_bandit_index(rec, N)
    [] ag.kind = "UCB1Normal" -> UCB1Normal_calculate_bandit_index(rec, N)

\* the arguments calculate_bandit_index reads for the arm at position i
IndexArgs(ag, log, i) ==
  [n |-> getitem(log, ag.bandits[i]).actions, N |-> log.total_actions]

\* the first position whose arm has no recorded pull (0 if none): the index of
\* that arm divides the int 0 by the int 0, which raises ZeroDivisionError
FirstUnpulled(ag, log) ==
  LET zs == {i \in 1..Len(ag.bandits) : getitem(log, ag.bandits[i]).actions = 0}
  IN  IF zs = {} THEN 0 ELSE CHOOSE i \in zs : \A j \in zs : i <= j

\* UCBAgent._get_current_best_bandit, every arm having a pull
UCB_get_current_best_bandit(ag, log) ==
  LET estimates == [i \in 1..Len(ag.bandits) |->
                      <<calculate_bandit_index(ag, getitem(log, ag.bandits[i]),
                                               log.total_actions), 1>>]
  IN  ag.bandits[argmax(estimates)]

\* the index-based choice followed by the pull; the list comprehension stops at
\* the first arm whose index raises
UCB_pull_best(ag, log, u) ==
  LET z == FirstUnpulled(ag, log)
      upto == IF z = 0 THEN Len(ag.bandits) ELSE z
      args == {IndexArgs(ag, log, i) : i \in 1..upto}
  IN  IF z # 0 THEN Raise("ZeroDivisionError", Touch(log, ag.bandits[z]), args)
      ELSE PullAndRecord(log, UCB_get_current_best_bandit(ag, log), u, FALSE, args)

\* take_action without the initialised check
MutTakeActionNoInitCheck(ag, log, u) ==
  IF NoBandits(ag) THEN Raise("NoBanditsError", log, {})
  ELSE UCB_pull_best(ag, log, u)

\* UCBAgent.take_action (UCB1, UCB1-Tuned)
UCB_take_action(ag, log, u) ==
  IF ~ag.initialised THEN Raise("Exception", log, {})
  ELSE IF NoBandits(ag) THEN Raise("NoBanditsError", log, {})
  ELSE UCB_pull_best(ag, log, u)

\* the threshold without its logarithmic term
MutInsufficientBelowThree(N) == 3

\* the threshold of _get_bandit_with_insufficient_data: max(3, ceil(8 log N))
InsufficientBelow(N) == Max(3, CeilDiv(8 * LnMicro[N], 1000000))

\* the list res of _get_bandit_with_insufficient_data
Insufficient(ag, log) ==
  SelectSeq(ag.bandits,
            LAMBDA b : getitem(log, b).actions < InsufficientBelow(log.total_actions))

\* UCB1NormalAgent.take_action
UCB1Normal_take_action(ag, log, c, u) ==
  IF ~ag.initialised THEN Raise("Exception", log, {})
  ELSE IF NoBandits(ag) THEN Raise("NoBanditsError", log, {})
  ELSE LET res == Insufficient(ag, log)
           l == TouchAll(log, ag.bandits)
       IN  IF res # <<>> THEN PullAndRecord(l, choice(res, c), u, TRUE, {})
           ELSE UCB_pull_best(ag, l, u)

\* take_action of any agent, with the random stream giving p, c, u
take_action(ag, log, p, c, u) ==
  CASE ag.kind = "EpsilonGreedy" -> EG_take_action(ag, log, p, c, u)
    [] ag.kind = "UCB1Normal" -> UCB1Normal_take_action(ag, log, c, u)
    [] OTHER -> UCB_take_action(ag, log, u)

\* one pull of each arm whatever the strategy
MutInitPullsOne(ag) == 1

\* the number of pulls initialise makes of each arm
InitPulls(ag) == IF ag.kind = "UCB1Normal" THEN 2 ELSE 1

\* the arms initialise pulls, in order
InitOrder(ag) ==
  [i \in 1..(InitPulls(ag) * Len(ag.bandits)) |->
     ag.bandits[((i - 1) \div InitPulls(ag)) + 1]]

\* initialise setting the flag before it reads the arm list
MutInitialiseFlagFirst(ag, log, us) ==
  IF ag.initialised THEN <<Raise("none", log, {}), TRUE>>
  ELSE IF NoBandits(ag) THEN <<Raise("NoBanditsError", log, {}), TRUE>>
  ELSE <<Outcome("none", PullAll(log, InitOrder(ag), us), 0, 0, FALSE, {},
                 PullPairs(InitOrder(ag), us)), TRUE>>

\* initialise without the early return
MutInitialiseAgain(ag, log, us) ==
  IF NoBandits(ag) THEN <<Raise("NoBanditsError", log, {}), FALSE>>
  ELSE <<Outcome("none", PullAll(log, InitOrder(ag), us), 0, 0, FALSE, {},
                 PullPairs(InitOrder(ag), us)), TRUE>>

\* initialise of a UCB agent, with the draws us of its pulls; the second
\* component is the initialised flag afterwards
initialise(ag, log, us) ==
  IF ag.initialised THEN <<Raise("none", log, {}), TRUE>>
  ELSE IF NoBandits(ag) THEN <<Raise("NoBanditsError", log, {}), FALSE>>
  ELSE <<Outcome("none", PullAll(log, InitOrder(ag), us), 0, 0, FALSE, {},
                 PullPairs(InitOrder(ag), us)), TRUE>>

(***************************************************************************)
(* State: its initial values and the record of a call.                     *)
(***************************************************************************)
vars == <<agents, logs, calls, last, run, trial, arms, probe>>

\* the Bandit objects: BernoulliBandit(p), each with its own id
NewArms == [b \in Arms |-> [id |-> b, p |-> ArmP[b]]]

\* no function has been called on its own
NoProbe == [fn |-> "none", in |-> <<>>, out |-> <<>>]

\* one ledger held by every agent
MutStoreLogShared(ls, a, l) == [x \in DOMAIN ls |-> l]

\* self.rewards_log of agent a has become l: every agent holds the ledger its
\* own constructor made
StoreLog(ls, a, l) == [ls EXCEPT ![a] = l]

\* the record of a call: its outcome without the ledger, and the number n of
\* record_action calls it made
Call(op, a, out) ==
  [op |-> op, agent |-> a, err |-> out.err, arm |-> out.arm, reward |-> out.reward,
   explored |-> out.explored, idx |-> out.idx, n |-> Len(out.pulls)]

NoCall == [op |-> "none", agent |-> 0, err |-> "none", arm |-> 0, reward |-> 0,
           explored |-> FALSE, idx |-> {}, n |-> 0]

AgentIds == DOMAIN agents

\* no compare_agents call has been made
NoRun == [pc |-> "idle", calls |-> 0, order |-> <<>>, bandits |-> <<>>, iterations |-> 0,
          i |-> 0, left |-> 0, budget |-> <<>>, taken |-> <<>>]

\* run_comparison_ucb has not been called
NoTrial == [pc |-> "idle", bandits |-> <<>>, done |-> 0, win_count |-> <<>>]

\* one agent of any strategy, freshly constructed
Init ==
  /\ \E cfg \in AgentConfigs : agents = [a \in {1} |-> cfg]
  /\ logs = [a \in {1} |-> NewLog]
  /\ calls = [a \in {1} |-> <<>>]
  /\ last = NoCall
  /\ run = NoRun
  /\ arms = NewArms
  /\ probe = NoProbe
  /\ trial = NoTrial

\* agent.bandits = L
Bind ==
  \E a \in AgentIds, L \in ArmLists :
    /\ agents' = [agents EXCEPT ![a].bandits = L, ![a].bound = TRUE]
    /\ last' = Call("bind", a, Raise("none", logs[a], {}))
    /\ UNCHANGED <<logs, calls, run, trial, arms, probe>>

\* agent.initialise()
Initialise ==
  \E a \in AgentIds :
    /\ agents[a].kind \in UCBKinds
    /\ \/ agents[a].initialised
       \/ logs[a].total_actions + Len(InitOrder(agents[a])) <= MaxActions
    /\ \E us \in [1..Len(InitOrder(agents[a])) -> Draws] :
         LET res == initialise(agents[a], logs[a], us)
         IN  /\ agents' = [agents EXCEPT ![a].initialised = res[2]]
             /\ logs' = StoreLog(logs, a, res[1].log)
             /\ calls' = [calls EXCEPT ![a] = @ \o res[1].pulls]
             /\ last' = Call("initialise", a, res[1])
    /\ UNCHANGED <<run, trial, arms, probe>>

\* agent.take_action()
TakeAction ==
  \E a \in AgentIds :
    /\ logs[a].total_actions < MaxActions
    /\ \E p \in Draws, c \in Choices, u \in Draws :
         LET out == take_action(agents[a], logs[a], p, c, u)
         IN  /\ logs' = StoreLog(logs, a, out.log)
             /\ calls' = [calls EXCEPT ![a] = @ \o out.pulls]
             /\ last' = Call("take_action", a, out)
    /\ UNCHANGED <<agents, run, trial, arms, probe>>

\* agent.rewards_log.record_action(bandit, reward), called directly
CallRecordAction ==
  \E a \in AgentIds, b \in Bandits, r \in RewardValues :
    /\ logs[a].total_actions < MaxActions
    /\ logs' = StoreLog(logs, a, record_action(logs[a], b, r))
    /\ calls' = [calls EXCEPT ![a] = Append(@, <<b, r>>)]
    /\ last' = Call("record_action", a,
                    Outcome("none", logs'[a], b, r, FALSE, {}, <<<<b, r>>>>))
    /\ UNCHANGED <<agents, run, trial, arms, probe>>

Next ==
  \/ Bind
  \/ Initialise
  \/ TakeAction
  \/ CallRecordAction

Spec == Init /\ [][Next]_vars

(***************************************************************************)
(* compare_agents(agents, bandits, iterations, show_plot=False), one step  *)
(* per statement of its loop body.  run.order is its agents argument,      *)
(* run.i the position of the loop over it, run.left the iterations         *)
(* take_actions has still to make; run.budget and run.taken keep, for each *)
(* position, the N it computed and the take_action calls it made.          *)
(***************************************************************************)
\* the iterations arguments tried
MaxIterations == 3

\* the compare_agents calls __main__ makes on one list of agents
CompareCalls == 2

\* the arm lists given to compare_agents
CompareLists == {<<1>>, <<1, 2>>}

\* get_agents(): the strategies compared, each with its constructor's defaults
get_agents ==
  <<NewAgent("EpsilonGreedy", NoneEps), NewAgent("UCB1", NoneEps),
    NewAgent("UCB1Tuned", NoneEps), NewAgent("UCB1Normal", NoneEps)>>

\* two freshly constructed agents of get_agents, in its order
InitCompare ==
  /\ \E x, y \in 1..Len(get_agents) : x < y /\ agents = <<get_agents[x], get_agents[y]>>
  /\ logs = [a \in 1..2 |-> NewLog]
  /\ calls = [a \in 1..2 |-> <<>>]
  /\ last = NoCall
  /\ run = NoRun
  /\ arms = NewArms
  /\ probe = NoProbe
  /\ trial = NoTrial

\* the agent the loop of compare_agents is at
Current == run.order[run.i]

\* the budget without the pulls already in the ledger
MutBudgetIgnoresLedger(iterations, log) == iterations

\* N = iterations - agent.rewards_log.total_actions
Budget(iterations, log) == iterations - log.total_actions

\* a loop that runs -n times for a negative n
MutRangeLenAbs(n) == IF n < 0 THEN 0 - n ELSE n

\* the number of iterations of for _ in range(n): none for n <= 0
RangeLen(n) == Max(n, 0)

\* the call compare_agents(agents, bandits, iterations, show_plot=False)
CompareAgents ==
  /\ run.pc \in {"idle", "returned", "raised"}
  /\ run.calls < CompareCalls
  /\ \E L \in CompareLists, n \in 0..MaxIterations :
       run' = [pc |-> "bind", calls |-> run.calls + 1, order |-> [k \in 1..Len(agents) |-> k], bandits |-> L,
               iterations |-> n, i |-> 1, left |-> 0,
               budget |-> [k \in 1..Len(agents) |-> 0],
               taken |-> [k \in 1..Len(agents) |-> 0]]
  /\ last' = NoCall
  /\ UNCHANGED <<agents, logs, calls, trial, arms, probe>>

\* agent.bandits = bandits
CmpBind ==
  /\ run.pc = "bind"
  /\ agents' = [agents EXCEPT ![Current].bandits = run.bandits, ![Current].bound = TRUE]
  /\ last' = Call("bind", Current, Raise("none", logs[Current], {}))
  /\ run' = [run EXCEPT !.pc = "initialise"]
  /\ UNCHANGED <<logs, calls, trial, arms, probe>>

\* if isinstance(agent, UCBAgent): agent.initialise()
CmpInitialise ==
  /\ run.pc = "initialise"
  /\ IF agents[Current].kind \in UCBKinds
     THEN \E us \in [1..Len(InitOrder(agents[Current])) -> Draws] :
            LET res == initialise(agents[Current], logs[Current], us)
            IN  /\ agents' = [agents EXCEPT ![Current].initialised = res[2]]
                /\ logs' = StoreLog(logs, Current, res[1].log)
                /\ calls' = [calls EXCEPT ![Current] = @ \o res[1].pulls]
                /\ last' = Call("initialise", Current, res[1])
                /\ run' = [run EXCEPT !.pc = IF res[1].err = "none" THEN "budget"
                                             ELSE "raised"]
     ELSE /\ run' = [run EXCEPT !.pc = "budget"]
          /\ UNCHANGED <<agents, logs, calls, last>>
  /\ UNCHANGED <<trial, arms, probe>>

\* N = iterations - agent.rewards_log.total_actions; take_actions(N) enters
\* its loop over range(N)
CmpBudget ==
  /\ run.pc = "budget"
  /\ LET N == Budget(run.iterations, logs[Current])
     IN  run' = [run EXCEPT !.pc = "loop", !.left = RangeLen(N), !.budget[run.i] = N]
  /\ UNCHANGED <<agents, logs, calls, last, trial, arms, probe>>

\* one iteration of take_actions: self.take_action()
CmpTakeAction ==
  /\ run.pc = "loop" /\ run.left > 0
  /\ \E p \in Draws, c \in Choices, u \in Draws :
       LET out == take_action(agents[Current], logs[Current], p, c, u)
       IN  /\ logs' = StoreLog(logs, Current, out.log)
           /\ calls' = [calls EXCEPT ![Current] = @ \o out.pulls]
           /\ last' = Call("take_action", Current, out)
           /\ run' = IF out.err = "none"
                     THEN [run EXCEPT !.left = @ - 1, !.taken[run.i] = @ + 1]
                     ELSE [run EXCEPT !.pc = "raised", !.taken[run.i] = @ + 1]
  /\ UNCHANGED <<agents, trial, arms, probe>>

\* take_actions returns; the loop over agents goes on, or compare_agents returns
CmpNextAgent ==
  /\ run.pc = "loop" /\ run.left = 0
  /\ run' = IF run.i < Len(run.order) THEN [run EXCEPT !.pc = "bind", !.i = @ + 1]
            ELSE [run EXCEPT !.pc = "returned"]
  /\ UNCHANGED <<agents, logs, calls, last, trial, arms, probe>>

NextCompare ==
  \/ CompareAgents
  \/ CmpBind
  \/ CmpInitialise
  \/ CmpBudget
  \/ CmpTakeAction
  \/ CmpNextAgent

SpecCompare == InitCompare /\ [][NextCompare]_vars

(***************************************************************************)
(* run_comparison_ucb(bandits).  The source runs 1000 trials of 1000       *)
(* iterations; the model runs Trials trials of TrialIterations iterations. *)
(* trial.done counts the trials tallied.                                   *)
(***************************************************************************)
\* range(1000) of run_comparison_ucb, scaled down
Trials == 2

\* iterations = 1000 of run_comparison_ucb, scaled down
TrialIterations == 2

\* the arm lists given to run_comparison_ucb
TrialLists == {<<>>, <<1>>, <<1, 2>>}

\* nothing constructed yet; run_comparison_ucb is called with some arm list
InitTrials ==
  /\ agents = <<>>
  /\ logs = <<>>
  /\ calls = <<>>
  /\ last = NoCall
  /\ run = NoRun
  /\ arms = NewArms
  /\ probe = NoProbe
  /\ \E L \in TrialLists :
       trial = [pc |-> "loop", bandits |-> L, done |-> 0, win_count |-> <<0, 0, 0, 0>>]

\* one more trial: agents = get_agents(); compare_agents(agents, bandits,
\* iterations, show_plot=False) is entered
TrialCompare ==
  /\ trial.pc = "loop" /\ trial.done < Trials
  /\ agents' = get_agents
  /\ logs' = [a \in 1..Len(get_agents) |-> NewLog]
  /\ calls' = [a \in 1..Len(get_agents) |-> <<>>]
  /\ last' = NoCall
  /\ run' = [pc |-> "bind", calls |-> 1, order |-> [k \in 1..Len(get_agents) |-> k],
             bandits |-> trial.bandits, iterations |-> TrialIterations, i |-> 1,
             left |-> 0, budget |-> [k \in 1..Len(get_agents) |-> 0],
             taken |-> [k \in 1..Len(get_agents) |-> 0]]
  /\ trial' = [trial EXCEPT !.pc = "comparing"]
  /\ UNCHANGED <<arms, probe>>

\* the rewards list of run_comparison_ucb
TrialRewards == [k \in 1..Len(agents) |-> <<logs[k].total_rewards, 1>>]

\* compare_agents has returned: win_count[np.argmax(rewards)] += 1
TrialTally ==
  /\ trial.pc = "comparing" /\ run.pc = "returned"
  /\ trial' = [trial EXCEPT !.pc = "loop", !.done = @ + 1,
                            !.win_count[argmax(TrialRewards)] = @ + 1]
  /\ run' = [run EXCEPT !.pc = "idle"]
  /\ UNCHANGED <<agents, logs, calls, last, arms, probe>>

\* compare_agents has raised: the error leaves run_comparison_ucb
TrialRaise ==
  /\ trial.pc = "comparing" /\ run.pc = "raised"
  /\ trial' = [trial EXCEPT !.pc = "raised"]
  /\ run' = [run EXCEPT !.pc = "idle"]
  /\ UNCHANGED <<agents, logs, calls, last, arms, probe>>

\* return win_count
TrialReturn ==
  /\ trial.pc = "loop" /\ trial.done = Trials
  /\ trial' = [trial EXCEPT !.pc = "returned"]
  /\ UNCHANGED <<agents, logs, calls, last, run, arms, probe>>

NextTrials ==
  \/ TrialCompare
  \/ CmpBind
  \/ CmpInitialise
  \/ CmpBudget
  \/ CmpTakeAction
  \/ CmpNextAgent
  \/ TrialTally
  \/ TrialRaise
  \/ TrialReturn

SpecTrials == InitTrials /\ [][NextTrials]_vars

(***************************************************************************)
(* Two runs of one strategy under the same random stream.  Agent 1 is the  *)
(* agent of the first run, on a list of the arms 1, 2; agent 2 is the      *)
(* agent of the second run, on the same arms constructed again (their      *)
(* replicas, with other ids).  Every call is made on both, with the same   *)
(* draws.                                                                  *)
(***************************************************************************)
ReplicaList(L) == [i \in 1..Len(L) |-> Replica(L[i])]

InitDet ==
  /\ \E cfg \in AgentConfigs : agents = <<cfg, cfg>>
  /\ logs = <<NewLog, NewLog>>
  /\ calls = <<<<>>, <<>>>>
  /\ last = NoCall
  /\ run = NoRun
  /\ arms = NewArms
  /\ probe = NoProbe
  /\ trial = NoTrial

\* agent.bandits = L in both runs
DetBind ==
  \E L \in ArmLists :
    /\ agents' = [agents EXCEPT ![1].bandits = L, ![1].bound = TRUE,
                                ![2].bandits = ReplicaList(L), ![2].bound = TRUE]
    /\ last' = Call("bind", 1, Raise("none", logs[1], {}))
    /\ UNCHANGED <<logs, calls, run, trial, arms, probe>>

\* agent.initialise() in both runs
DetInitialise ==
  /\ agents[1].kind \in UCBKinds
  /\ \/ agents[1].initialised
     \/ logs[1].total_actions + Len(InitOrder(agents[1])) <= MaxActions
  /\ \E us \in [1..Len(InitOrder(agents[1])) -> Draws] :
       LET r1 == initialise(agents[1], logs[1], us)
           r2 == initialise(agents[2], logs[2], us)
       IN  /\ agents' = [agents EXCEPT ![1].initialised = r1[2], ![2].initialised = r2[2]]
           /\ logs' = <<r1[1].log, r2[1].log>>
           /\ calls' = <<calls[1] \o r1[1].pulls, calls[2] \o r2[1].pulls>>
           /\ last' = Call("initialise", 1, r1[1])
  /\ UNCHANGED <<run, trial, arms, probe>>

\* agent.take_action() in both runs
DetTakeAction ==
  /\ logs[1].total_actions < MaxActions
  /\ \E p \in Draws, c \in Choices, u \in Draws :
       LET o1 == take_action(agents[1], logs[1], p, c, u)
           o2 == take_action(agents[2], logs[2], p, c, u)
       IN  /\ logs' = <<o1.log, o2.log>>
           /\ calls' = <<calls[1] \o o1.pulls, calls[2] \o o2.pulls>>
           /\ last' = Call("take_action", 1, o1)
  /\ UNCHANGED <<agents, run, trial, arms, probe>>

NextDet ==
  \/ DetBind
  \/ DetInitialise
  \/ DetTakeAction

SpecDet == InitDet /\ [][NextDet]_vars

(***************************************************************************)
(* A UCB1-Normal agent followed far enough for its index to be used: the   *)
(* threshold max(3, ceil(8 ln N)) is first met by one arm at N = 27 and by *)
(* two arms at N = 68.  The arms are those that always pay 1, so that      *)
(* all_rewards has one value per length; the branch take_action takes      *)
(* depends on the pull counts only.  The calls made are not kept here.     *)
(***************************************************************************)
\* cap on the total_actions of the ledger in SpecNormal
MaxNormalActions == 72

\* the arm lists bound: BernoulliBandit(1.0) arms
NormalLists == {<<2>>, <<2, 3>>}

\* one UCB1-Normal agent, freshly constructed
InitNormal ==
  /\ agents = <<NewAgent("UCB1Normal", NoneEps)>>
  /\ logs = <<NewLog>>
  /\ calls = <<<<>>>>
  /\ last = NoCall
  /\ run = NoRun
  /\ trial = NoTrial
  /\ arms = NewArms
  /\ probe = NoProbe

\* agent.bandits = L
NormalBind ==
  \E L \in NormalLists :
    /\ agents' = [agents EXCEPT ![1].bandits = L, ![1].bound = TRUE]
    /\ last' = Call("bind", 1, Raise("none", logs[1], {}))
    /\ UNCHANGED <<logs, calls, run, trial, arms, probe>>

\* agent.initialise()
NormalInitialise ==
  /\ \/ agents[1].initialised
     \/ logs[1].total_actions + Len(InitOrder(agents[1])) <= MaxNormalActions
  /\ \E us \in [1..Len(InitOrder(agents[1])) -> Draws] :
       LET res == initialise(agents[1], logs[1], us)
       IN  /\ agents' = [agents EXCEPT ![1].initialised = res[2]]
           /\ logs' = StoreLog(logs, 1, res[1].log)
           /\ last' = Call("initialise", 1, res[1])
  /\ UNCHANGED <<calls, run, trial, arms, probe>>

\* agent.take_action()
NormalTakeAction ==
  /\ logs[1].total_actions < MaxNormalActions
  /\ \E c \in Choices, u \in Draws :
       LET out == UCB1Normal_take_action(agents[1], logs[1], c, u)
       IN  /\ logs' = StoreLog(logs, 1, out.log)
           /\ last' = Call("take_action", 1, out)
  /\ UNCHANGED <<agents, calls, run, trial, arms, probe>>

NextNormal ==
  \/ NormalBind
  \/ NormalInitialise
  \/ NormalTakeAction

SpecNormal == InitNormal /\ [][NextNormal]_vars

(***************************************************************************)
(* An Epsilon-Greedy agent whose ledger also holds rewards recorded by a   *)
(* direct caller, negative ones among them (the rewards of a Normal arm    *)
(* have either sign).  The calls made are not kept here.                   *)
(***************************************************************************)
\* cap on the total_actions of the ledger in SpecGreedy
MaxGreedyActions == 3

\* rewards handed to record_action by a direct caller
GreedyRewards == {0 - 1, 0, 1}

\* the arm lists bound
GreedyLists == {<<1, 2>>, <<2, 1>>, <<1, 2, 3>>}

\* one Epsilon-Greedy agent, freshly constructed
InitGreedy ==
  /\ \E e \in Epsilons : agents = <<NewAgent("EpsilonGreedy", e)>>
  /\ logs = <<NewLog>>
  /\ calls = <<<<>>>>
  /\ last = NoCall
  /\ run = NoRun
  /\ trial = NoTrial
  /\ arms = NewArms
  /\ probe = NoProbe

\* agent.bandits = L
GreedyBind ==
  \E L \in GreedyLists :
    /\ agents' = [agents EXCEPT ![1].bandits = L, ![1].bound = TRUE]
    /\ last' = Call("bind", 1, Raise("none", logs[1], {}))
    /\ UNCHANGED <<logs, calls, run, trial, arms, probe>>

\* agent.rewards_log.record_action(bandit, reward), called directly
GreedyRecord ==
  \E b \in 1..3, r \in GreedyRewards :
    /\ logs[1].total_actions < MaxGreedyActions
    /\ logs' = StoreLog(logs, 1, record_action(logs[1], b, r))
    /\ last' = Call("record_action", 1,
                    Outcome("none", logs'[1], b, r, FALSE, {}, <<<<b, r>>>>))
    /\ UNCHANGED <<agents, calls, run, trial, arms, probe>>

\* agent.take_action()
GreedyTakeAction ==
  /\ logs[1].total_actions < MaxGreedyActions
  /\ \E p \in Draws, c \in Choices, u \in Draws :
       LET out == EG_take_action(agents[1], logs[1], p, c, u)
       IN  /\ logs' = StoreLog(logs, 1, out.log)
           /\ last' = Call("take_action", 1, out)
  /\ UNCHANGED <<agents, calls, run, trial, arms, probe>>

NextGreedy ==
  \/ GreedyBind
  \/ GreedyRecord
  \/ GreedyTakeAction

SpecGreedy == InitGreedy /\ [][NextGreedy]_vars

(***************************************************************************)
(* A BanditRewardsLog on its own, with the calls of a direct caller:       *)
(* record_action(bandit, reward) and the lookup rewards_log[bandit], whose *)
(* argument and result are kept in probe.                                  *)
(***************************************************************************)
\* cap on the total_actions of the ledger in SpecLedger
MaxLedgerActions == 3

\* one ledger, freshly constructed
InitLedger ==
  /\ agents = <<>>
  /\ logs = <<NewLog>>
  /\ calls = <<<<>>>>
  /\ last = NoCall
  /\ run = NoRun
  /\ trial = NoTrial
  /\ arms = NewArms
  /\ probe = NoProbe

\* rewards_log.record_action(bandit, reward)
LedgerRecord ==
  \E b \in Bandits, r \in GreedyRewards :
    /\ logs[1].total_actions < MaxLedgerActions
    /\ logs' = StoreLog(logs, 1, record_action(logs[1], b, r))
    /\ probe' = [fn |-> "record_action", in |-> <<b, r>>, out |-> <<>>]
    /\ UNCHANGED <<agents, calls, last, run, trial, arms>>

\* rewards_log[bandit]
LedgerLookup ==
  \E b \in Bandits :
    /\ logs' = StoreLog(logs, 1, Touch(logs[1], b))
    /\ probe' = [fn |-> "getitem", in |-> b, out |-> getitem(logs[1], b)]
    /\ UNCHANGED <<agents, calls, last, run, trial, arms>>

NextLedger ==
  \/ LedgerRecord
  \/ LedgerLookup

SpecLedger == InitLedger /\ [][NextLedger]_vars

(***************************************************************************)
(* Bandit.pull, the truncated Normal arm, on its own.  The batch           *)
(* sigma * randn(n) + m of candidate rewards and the two bounds are drawn, *)
(* and pull is applied to them.  A bound is <<>> when it is None and <<v>> *)
(* when it is set to v.                                                     *)
(***************************************************************************)
\* n = 10: the candidates drawn by one pull
BatchSize == 10

\* the values a candidate reward may take
Candidates == {0 - 1, 0, 1}

\* the settings of lower_bound and of upper_bound
PullBounds == {<<>>, <<0>>, <<1>>}

\* the first position of the mask that is set (0 if none)
FirstAllowed(allowed) ==
  LET ps == {i \in 1..Len(allowed) : allowed[i]}
  IN  IF ps = {} THEN 0 ELSE CHOOSE i \in ps : \A j \in ps : i <= j

\* pull with the upper bound's mask replacing the lower bound's
MutPullUpperReplaces(batch, lower, upper) ==
  LET all == [i \in 1..Len(batch) |-> TRUE]
      lo == IF lower # <<>> THEN [i \in 1..Len(batch) |-> batch[i] >= lower[1]] ELSE all
      allowed == IF upper # <<>>
                 THEN [i \in 1..Len(batch) |-> batch[i] <= upper[1]] ELSE lo
      k == FirstAllowed(allowed)
  IN  IF k = 0 THEN [err |-> "IndexError", reward |-> 0]
      ELSE [err |-> "none", reward |-> batch[k]]

\* Bandit.pull with possible_rewards = batch: allowed starts all True, a set
\* lower bound replaces it, a set upper bound is multiplied into it, and
\* possible_rewards[allowed][0] raises IndexError when no entry is allowed
Bandit_pull(batch, lower, upper) ==
  LET all == [i \in 1..Len(batch) |-> TRUE]
      lo == IF lower # <<>> THEN [i \in 1..Len(batch) |-> batch[i] >= lower[1]] ELSE all
      allowed == IF upper # <<>>
                 THEN [i \in 1..Len(batch) |-> lo[i] /\ batch[i] <= upper[1]] ELSE lo
      k == FirstAllowed(allowed)
  IN  IF k = 0 THEN [err |-> "IndexError", reward |-> 0]
      ELSE [err |-> "none", reward |-> batch[k]]

\* a Bandit with some bounds, and the batch its next pull draws
InitPull ==
  /\ agents = <<>>
  /\ logs = <<>>
  /\ calls = <<>>
  /\ last = NoCall
  /\ run = NoRun
  /\ trial = NoTrial
  /\ arms = NewArms
  /\ \E batch \in [1..BatchSize -> Candidates], lower \in PullBounds, upper \in PullBounds :
       probe = [fn |-> "input", in |-> [batch |-> batch, lower |-> lower, upper |-> upper],
                out |-> <<>>]

\* bandit.pull()
CallPull ==
  /\ probe.fn = "input"
  /\ probe' = [probe EXCEPT
                 !.fn = "pull",
                 !.out = Bandit_pull(probe.in.batch, probe.in.lower, probe.in.upper)]
  /\ UNCHANGED <<agents, logs, calls, last, run, trial, arms>>

NextPull ==
  \/ CallPull

SpecPull == InitPull /\ [][NextPull]_vars

(***************************************************************************)
(* UCB1Agent.calculate_bandit_index on its own: the record of one arm and  *)
(* the ledger total are drawn, and the function is applied to them.        *)
(***************************************************************************)
\* the largest pull count n of the arm
IndexMaxPulls == 4

\* the largest ledger total N
IndexMaxTotal == 8

\* the rewards whose sums make the arm's reward: -1 .. 2
IndexRewardSums(n) == (0 - n)..(2 * n)

\* a ledger with total_actions = N whose record of the arm has n pulls
InitIndex ==
  /\ agents = <<>>
  /\ logs = <<>>
  /\ calls = <<>>
  /\ last = NoCall
  /\ run = NoRun
  /\ trial = NoTrial
  /\ arms = NewArms
  /\ \E n \in 1..IndexMaxPulls, N \in 1..IndexMaxTotal :
       /\ n <= N
       /\ \E r \in IndexRewardSums(n) :
            probe = [fn |-> "input", in |-> [n |-> n, rewardSum |-> r, N |-> N],
                     out |-> <<>>]

\* UCB1Agent.calculate_bandit_index(bandit)
CalcIndex ==
  /\ probe.fn = "input"
  /\ probe' = [probe EXCEPT
                 !.fn = "calculate_bandit_index",
                 !.out = UCB1_calculate_bandit_index(
                           [actions |-> probe.in.n, reward |-> probe.in.rewardSum,
                            reward_squared |-> 0], probe.in.N)]
  /\ UNCHANGED <<agents, logs, calls, last, run, trial, arms>>

NextIndex ==
  \/ CalcIndex

SpecIndex == InitIndex /\ [][NextIndex]_vars

(***************************************************************************)
(* Properties.                                                             *)
(***************************************************************************)
RECURSIVE SumSeq(_)
SumSeq(s) == IF s = <<>> THEN 0 ELSE Head(s) + SumSeq(Tail(s))

\* the record_action calls made on agent a's ledger for arm b
CallsFor(a, b) == SelectSeq(calls[a], LAMBDA c : c[1] = b)

RewardsOf(cs) == [i \in 1..Len(cs) |-> cs[i][2]]

RECURSIVE SumActions(_, _)
SumActions(log, bs) ==
  IF bs = {} THEN 0
  ELSE LET b == CHOOSE x \in bs : TRUE
       IN  log.record[b].actions + SumActions(log, bs \ {b})

RECURSIVE SumRewards(_, _)
SumRewards(log, bs) ==
  IF bs = {} THEN 0
  ELSE LET b == CHOOSE x \in bs : TRUE
       IN  log.record[b].reward + SumRewards(log, bs \ {b})

IsUCB(a) == agents[a].kind \in UCBKinds

\* the step is a call of op on agent a
Called(op, a) == last' # last /\ last'.op = op /\ last'.agent = a

Distinct(bs) == \A i, j \in 1..Len(bs) : i # j => bs[i] # bs[j]

\* C1: in every reachable state, for every arm the per-arm actions count is the
\* number of record_action calls made for it and the per-arm reward is the sum of
\* the rewards recorded for it; total_actions is the sum of the per-arm counts and
\* the length of all_rewards; total_rewards is the sum of the per-arm rewards.
C1_LedgerConsistency ==
  \A a \in AgentIds :
    LET log == logs[a]
    IN  /\ \A b \in Arms :
             /\ getitem(log, b).actions = Len(CallsFor(a, b))
             /\ getitem(log, b).reward = SumSeq(RewardsOf(CallsFor(a, b)))
        /\ log.total_actions = SumActions(log, DOMAIN log.record)
        /\ log.total_actions = Len(log.all_rewards)
        /\ log.total_rewards = SumRewards(log, DOMAIN log.record)

\* a ledger filled through initialise and take_action, both arms pulled
C1_Witness ==
  \E a \in AgentIds :
    /\ last.op = "take_action" /\ last.err = "none" /\ IsUCB(a)
    /\ logs[a].total_actions >= 3
    /\ \A b \in Bandits : getitem(logs[a], b).actions >= 1

\* C2: take_action of a UCB agent whose initialised flag is false fails with the
\* uninitialised-agent error, makes no pull, leaves the ledger unchanged and
\* computes no index.
C2_UninitialisedTakeAction ==
  [][\A a \in AgentIds :
       (Called("take_action", a) /\ IsUCB(a) /\ ~agents[a].initialised)
         => /\ last'.err = "Exception"
            /\ last'.n = 0
            /\ last'.idx = {}
            /\ logs'[a] = logs[a]
            /\ calls'[a] = calls[a]]_vars

\* a bound, uninitialised UCB agent with recorded pulls whose take_action failed
C2_Witness ==
  \E a \in AgentIds :
    /\ last.op = "take_action" /\ last.err = "Exception"
    /\ IsUCB(a) /\ ~agents[a].initialised
    /\ ~NoBandits(agents[a])
    /\ logs[a].total_actions >= 1

\* C3 as stated: take_action of any agent before an arm list is bound fails with
\* NoBanditsError and leaves the ledger unchanged.
C3_Original ==
  [][\A a \in AgentIds :
       (Called("take_action", a) /\ ~agents[a].bound)
         => /\ last'.err = "NoBanditsError"
            /\ logs'[a] = logs[a]]_vars

\* C3 amended: before an arm list is bound, take_action of an Epsilon-Greedy agent
\* and initialise of a UCB agent fail with NoBanditsError, take_action of a UCB
\* agent fails with the uninitialised-agent error, and in each case the ledger
\* and the initialised flag are unchanged.
C3_UnboundCalls ==
  [][\A a \in AgentIds :
       ((Called("take_action", a) \/ Called("initialise", a)) /\ ~agents[a].bound)
         => /\ last'.err = IF last'.op = "take_action" /\ IsUCB(a)
                           THEN "Exception" ELSE "NoBanditsError"
            /\ last'.n = 0
            /\ logs'[a] = logs[a]
            /\ calls'[a] = calls[a]
            /\ agents'[a] = agents[a]]_vars

\* a never-bound agent with recorded pulls whose call failed with NoBanditsError
C3_Witness ==
  \E a \in AgentIds :
    /\ last.err = "NoBanditsError"
    /\ ~agents[a].bound
    /\ logs[a].total_actions >= 1

\* C4: initialise on a freshly constructed UCB agent bound to k distinct arms
\* sets initialised, leaves every bound arm with exactly 1 pull (2 for
\* UCB1-Normal) and total_actions at k (2k).
C4_InitialisePostcondition ==
  [][\A a \in AgentIds :
       (/\ Called("initialise", a)
        /\ ~agents[a].initialised /\ logs[a] = NewLog
        /\ ~NoBandits(agents[a]) /\ Distinct(agents[a].bandits))
         => LET m == IF agents[a].kind = "UCB1Normal" THEN 2 ELSE 1
                k == Len(agents[a].bandits)
            IN  /\ last'.err = "none"
                /\ agents'[a].initialised
                /\ \A i \in 1..k : getitem(logs'[a], agents[a].bandits[i]).actions = m
                /\ logs'[a].total_actions = m * k]_vars

\* a UCB1-Normal agent just initialised on two arms
C4_Witness ==
  \E a \in AgentIds :
    /\ last.op = "initialise" /\ last.err = "none" /\ last.n = 4
    /\ agents[a].kind = "UCB1Normal" /\ agents[a].initialised
    /\ Len(agents[a].bandits) = 2
    /\ logs[a].total_actions = 4

\* C5: initialise on a UCB agent whose initialised flag is true makes no pull,
\* raises no error and leaves the ledger and the flag unchanged.
C5_InitialiseIdempotent ==
  [][\A a \in AgentIds :
       (Called("initialise", a) /\ agents[a].initialised)
         => /\ last'.err = "none"
            /\ last'.n = 0
            /\ logs'[a] = logs[a]
            /\ calls'[a] = calls[a]
            /\ agents'[a] = agents[a]]_vars

\* a repeated initialise after the agent has taken actions
C5_Witness ==
  \E a \in AgentIds :
    /\ last.op = "initialise" /\ last.err = "none" /\ last.n = 0
    /\ agents[a].initialised /\ ~NoBandits(agents[a])
    /\ logs[a].total_actions > 2 * Len(agents[a].bandits)

\* every bound arm of agent a has exactly one recorded reward, all distinct
Primed(a) ==
  LET bs == agents[a].bandits
  IN  /\ Len(bs) >= 2 /\ Distinct(bs)
      /\ \A i \in 1..Len(bs) : getitem(logs[a], bs[i]).actions = 1
      /\ \A i, j \in 1..Len(bs) :
           i # j => getitem(logs[a], bs[i]).reward # getitem(logs[a], bs[j]).reward

\* the bound arm of agent a with the highest sample mean
HighestMean(a) ==
  LET bs == agents[a].bandits
  IN  CHOOSE b \in {bs[i] : i \in 1..Len(bs)} :
        \A i \in 1..Len(bs) :
          ~Less(<<getitem(logs[a], b).reward, getitem(logs[a], b).actions>>,
                <<getitem(logs[a], bs[i]).reward, getitem(logs[a], bs[i]).actions>>)

\* C6: an Epsilon-Greedy agent with epsilon = 0 whose arms have each been
\* recorded once with distinct rewards selects, at every take_action and whatever
\* the uniform draw, the arm with the highest sample mean, never a random arm.
C6_EpsilonZeroExploits ==
  [][\A a \in AgentIds :
       (/\ Called("take_action", a)
        /\ agents[a].kind = "EpsilonGreedy" /\ agents[a].epsilon = 0
        /\ Primed(a))
         => /\ ~last'.explored
            /\ last'.arm = HighestMean(a)]_vars

\* C7: whenever calculate_bandit_index is evaluated for an arm, the arm's pull
\* count is at least 1 (2 for UCB1-Normal) and the logarithm's argument is at
\* least 1; no division by zero is reached.
C7_NoDegenerateIndex ==
  \A a \in AgentIds :
    (last.op = "take_action" /\ last.agent = a)
      => /\ last.err # "ZeroDivisionError"
         /\ \A x \in last.idx :
              IF agents[a].kind = "UCB1Normal"
              THEN x.n >= 2 /\ x.N - 1 >= 1
              ELSE x.n >= 1 /\ x.N >= 1

\* C8: when compare_agents returns, for every agent whose ledger held at most
\* iterations pulls after binding and initialisation, exactly
\* iterations - total_actions further take_action calls were made and its
\* total_actions equals iterations.
C8_BudgetAccounting ==
  run.pc = "returned" =>
    \A k \in 1..Len(run.order) :
      run.budget[k] >= 0 =>
        /\ run.taken[k] = run.budget[k]
        /\ logs[run.order[k]].total_actions = run.iterations

\* a second compare_agents call has returned, having resumed an initialised UCB
\* agent that had pulls left to make
C8_Witness ==
  /\ run.pc = "returned" /\ run.calls = 2
  /\ \E k \in 1..Len(run.order) :
       /\ IsUCB(run.order[k])
       /\ run.budget[k] = 1 /\ run.taken[k] = 1
       /\ logs[run.order[k]].total_actions = 3

\* C9: run_comparison_ucb returns a vector with one entry per strategy whose
\* entries sum to the number of trials; every trial starts from newly
\* constructed agents and increments exactly one entry, that of the first agent
\* in list order with the highest total_rewards of the trial.
C9_WinCountTally ==
  /\ [](trial.pc = "returned"
          => /\ Len(trial.win_count) = Len(get_agents)
             /\ SumSeq(trial.win_count) = Trials)
  /\ [][(trial.pc = "loop" /\ trial'.pc = "comparing")
          => /\ agents' = get_agents
             /\ \A a \in DOMAIN logs' : logs'[a] = NewLog]_vars
  /\ [][trial'.win_count # trial.win_count
          => \E w \in 1..Len(agents) :
               /\ trial'.win_count = [trial.win_count EXCEPT ![w] = @ + 1]
               /\ \A j \in 1..Len(agents) : logs[j].total_rewards <= logs[w].total_rewards
               /\ \A j \in 1..(w - 1) : logs[j].total_rewards < logs[w].total_rewards]_vars

\* every trial is tallied and two strategies have each won one
C9_Witness ==
  /\ trial.pc = "returned"
  /\ \E i, j \in 1..Len(trial.win_count) :
       i # j /\ trial.win_count[i] > 0 /\ trial.win_count[j] > 0

\* C10: two runs of one strategy on the same arms under the same random draws
\* choose the same arms in the same order and record the same rewards:
\* all_rewards and the per-arm records agree, whatever ids the arms were given.
C10_Determinism ==
  /\ logs[1].all_rewards = logs[2].all_rewards
  /\ logs[1].total_actions = logs[2].total_actions
  /\ logs[1].total_rewards = logs[2].total_rewards
  /\ Len(calls[1]) = Len(calls[2])
  /\ \A i \in 1..Len(calls[1]) :
       calls[2][i] = <<Replica(calls[1][i][1]), calls[1][i][2]>>
  /\ DOMAIN logs[2].record = {Replica(b) : b \in DOMAIN logs[1].record}
  /\ \A b \in Bandits : getitem(logs[1], b) = getitem(logs[2], Replica(b))

\* both runs have made three pulls on a list of two arms, of both arms
C10_Witness ==
  /\ last.op = "take_action" /\ last.err = "none"
  /\ agents[1].bandits = <<1, 2>> /\ agents[2].bandits = <<4, 3>>
  /\ logs[2].total_actions >= 3
  /\ \A b \in Bandits : getitem(logs[2], Replica(b)).actions >= 1

\* take_actions has returned for the agent at position k of the running
\* compare_agents call
TakeActionsDone(k) ==
  \/ k < run.i
  \/ k = run.i /\ run.pc = "loop" /\ run.left = 0
  \/ run.pc = "returned"

\* C11: a successful take_action pulls one arm of the agent's bound list and
\* records one outcome: total_actions grows by one, the chosen arm's count grows
\* by one, no other arm's record changes, and the returned reward is appended
\* to all_rewards; take_actions(n) with n >= 0 on a ready agent makes exactly n
\* take_action calls, so total_actions has grown by n when it returns.
C11_OneStepPerAction ==
  /\ [][(run.pc = "loop" /\ run'.taken # run.taken /\ last'.err = "none")
          => LET a == Current
                 b == last'.arm
             IN  /\ last'.op = "take_action" /\ last'.agent = a
                 /\ \E i \in 1..Len(agents[a].bandits) : agents[a].bandits[i] = b
                 /\ logs'[a].total_actions = logs[a].total_actions + 1
                 /\ getitem(logs'[a], b).actions = getitem(logs[a], b).actions + 1
                 /\ \A x \in Arms \ {b} : getitem(logs'[a], x) = getitem(logs[a], x)
                 /\ logs'[a].all_rewards = Append(logs[a].all_rewards, last'.reward)
                 /\ run'.taken[run.i] = run.taken[run.i] + 1]_vars
  /\ [](\A k \in 1..Len(run.order) :
          (TakeActionsDone(k) /\ run.budget[k] >= 0)
            => /\ run.taken[k] = run.budget[k]
               /\ logs[run.order[k]].total_actions
                    = (run.iterations - run.budget[k]) + run.budget[k])

\* take_actions(n) has returned for an agent after the largest n tried, every
\* one of its n steps a successful take_action
C11_Witness ==
  /\ run.pc = "returned"
  /\ last.op = "take_action" /\ last.err = "none"
  /\ \E k \in 1..Len(run.order) :
       /\ run.budget[k] = MaxIterations /\ run.taken[k] = MaxIterations
       /\ Len(logs[run.order[k]].all_rewards) = MaxIterations

\* C12: an operation on one agent (bind, initialise, take_action, each step of
\* take_actions), whether it succeeds or raises, leaves the ledger and the
\* fields of every other agent unchanged, and leaves the parameters and the
\* ids of the arms unchanged, also when the agents are bound to the same list.
C12_AgentIsolation ==
  [][/\ arms' = arms
     /\ \A a \in AgentIds :
          a # last'.agent => logs'[a] = logs[a] /\ agents'[a] = agents[a]]_vars

\* two agents bound to the same two arms: the first has pulled, and a
\* take_action of the second has just raised after its own pulls
C12_Witness ==
  /\ agents[1].bandits = <<1, 2>> /\ agents[2].bandits = <<1, 2>>
  /\ logs[1].total_actions > 0 /\ logs[2].total_actions > 0
  /\ logs[1] # logs[2]
  /\ last.op = "take_action" /\ last.agent = 2 /\ last.err # "none"

\* C13: for an arm with n >= 1 pulls and a ledger total N >= 1 the UCB1 index
\* is rewardSum / n + sqrt(2 ln N / n): in thousandths, the value returned is
\* m + c with m the mean rounded down (m n <= 1000 rewardSum < (m + 1) n) and
\* c the root rounded down (c^2 n <= 2 ln N < (c + 1)^2 n, ln N in millionths);
\* with N = 4, n = 2, rewardSum = 3 it is 1.5 + sqrt(2 ln 4 / 2) = 2.677...
C13_UCB1IndexFormula ==
  probe.fn = "calculate_bandit_index"
    => LET n == probe.in.n
           r == probe.in.rewardSum
           N == probe.in.N
       IN  /\ \E c \in 0..3000 :
                /\ c * c * n <= 2 * LnMicro[N]
                /\ 2 * LnMicro[N] < (c + 1) * (c + 1) * n
                /\ (probe.out - c) * n <= 1000 * r
                /\ 1000 * r < (probe.out - c + 1) * n
           /\ (N = 4 /\ n = 2 /\ r = 3) => probe.out = 2677

\* the index of the arm with N = 4, n = 2, rewardSum = 3 has been computed
C13_Witness ==
  /\ probe.fn = "calculate_bandit_index"
  /\ probe.in = [n |-> 2, rewardSum |-> 3, N |-> 4]
  /\ probe.out > 1500

\* the bound arms of agent a whose pull count is below max(3, ceil(8 ln N)),
\* N the ledger total: n < ceil(x) is n < x for an integer n
BelowFloor(a) ==
  {b \in {agents[a].bandits[i] : i \in 1..Len(agents[a].bandits)} :
     \/ getitem(logs[a], b).actions < 3
     \/ getitem(logs[a], b).actions * 1000000 < 8 * LnMicro[logs[a].total_actions]}

\* C14: in every take_action of an initialised UCB1-Normal agent, if some bound
\* arm has a pull count below max(3, ceil(8 ln N)), N the ledger total before
\* the pull, the arm pulled is one of those arms and no index is computed; the
\* indices are computed, and their argmax pulled, only when every bound arm
\* meets the threshold, so only when every bound arm has n >= 3.
C14_MinimumSampleFloor ==
  [][(last'.op = "take_action" /\ logs'[1].total_actions = logs[1].total_actions + 1)
       => /\ BelowFloor(1) # {} => last'.arm \in BelowFloor(1) /\ last'.idx = {}
          /\ BelowFloor(1) = {} => last'.idx # {}
          /\ last'.idx # {}
               => \A i \in 1..Len(agents[1].bandits) :
                    getitem(logs[1], agents[1].bandits[i]).actions >= 3]_vars

\* the agent has just pulled the argmax of the indices of two bound arms, each
\* of them with three pulls or more
C14_Witness ==
  /\ last.op = "take_action" /\ last.err = "none"
  /\ last.idx # {}
  /\ Len(agents[1].bandits) = 2
  /\ \A x \in last.idx : x.n >= 3

\* the estimate of arm b in agent a's ledger, as <<numerator, denominator>>:
\* rewardSum / pullCount, 0 for a never-pulled arm
Estimate(a, b) ==
  IF getitem(logs[a], b).actions = 0 THEN <<0, 1>>
  ELSE <<getitem(logs[a], b).reward, getitem(logs[a], b).actions>>

\* the estimate x is at least the estimate y
AtLeast(x, y) == x[1] * y[2] >= y[1] * x[2]

\* C15: whenever take_action of an Epsilon-Greedy agent takes the exploitation
\* branch, the arm pulled is the first arm in list order whose estimate is the
\* maximum over the bound arms, the estimate being rewardSum / pullCount for a
\* pulled arm and 0 for a never-pulled one.
C15_ExploitFirstMaximum ==
  [][(last'.op = "take_action" /\ last'.err = "none" /\ ~last'.explored
        /\ logs' # logs)
       => LET bs == agents[1].bandits
          IN  \E i \in 1..Len(bs) :
                /\ last'.arm = bs[i]
                /\ \A j \in 1..Len(bs) : AtLeast(Estimate(1, bs[i]), Estimate(1, bs[j]))
                /\ \A j \in 1..(i - 1) :
                     ~AtLeast(Estimate(1, bs[j]), Estimate(1, bs[i]))]_vars

\* the exploitation branch has pulled a never-pulled arm standing after an arm
\* with a negative sample mean, and before an arm with the same estimate 0
C15_Witness ==
  /\ last.op = "take_action" /\ last.err = "none" /\ ~last.explored
  /\ agents[1].bandits = <<1, 2, 3>>
  /\ last.arm = 2
  /\ getitem(logs[1], 1).actions = 1 /\ getitem(logs[1], 1).reward < 0
  /\ getitem(logs[1], 2).actions = 1
  /\ getitem(logs[1], 3).actions = 0

\* C16: the initialised flag of a UCB agent is false at construction, is
\* changed only by a successful initialise() on a bound, non-empty arm list,
\* goes from false to true and never back over any sequence of bind,
\* initialise, take_action and record_action calls; an initialise that fails
\* for want of arms leaves it false.
C16_InitialisedMonotone ==
  /\ \A a \in AgentIds : ~agents[a].initialised
  /\ [][\A a \in AgentIds :
          /\ agents[a].initialised => agents'[a].initialised
          /\ (~agents[a].initialised /\ agents'[a].initialised)
               => /\ IsUCB(a)
                  /\ last'.op = "initialise" /\ last'.agent = a /\ last'.err = "none"
                  /\ ~NoBandits(agents[a])
          /\ (last'.op = "initialise" /\ last'.agent = a /\ last'.err # "none")
               => ~agents'[a].initialised]_vars

\* an initialised agent, rebound to the empty list, has had initialise() called
\* again: the call returns early and the flag is still true
C16_Witness ==
  /\ \E a \in AgentIds : agents[a].initialised /\ NoBandits(agents[a])
  /\ last.op = "initialise" /\ last.err = "none"

\* C17: the lookup rewards_log[bandit] of an arm that has never been pulled
\* returns the zeroed record and does not fail; a lookup in any state returns
\* the arm's aggregate and leaves total_actions, total_rewards, all_rewards
\* and the record of every other arm (present or absent) unchanged.
C17_LookupIsReadOnly ==
  [][probe'.fn = "getitem"
       => LET b == probe'.in
              l == logs[1]
              m == logs'[1]
          IN  /\ (b \notin DOMAIN l.record \/ l.record[b].actions = 0)
                   => probe'.out = [actions |-> 0, reward |-> 0, reward_squared |-> 0]
              /\ b \in DOMAIN l.record => probe'.out = l.record[b]
              /\ m.total_actions = l.total_actions
              /\ m.total_rewards = l.total_rewards
              /\ m.all_rewards = l.all_rewards
              /\ b \in DOMAIN m.record /\ m.record[b] = probe'.out
              /\ \A x \in Arms \ {b} :
                   /\ x \in DOMAIN m.record <=> x \in DOMAIN l.record
                   /\ x \in DOMAIN l.record => m.record[x] = l.record[x]]_vars

\* a never-pulled arm has been looked up in a ledger holding the pulls of
\* another arm
C17_Witness ==
  /\ probe.fn = "getitem" /\ probe.in = 2
  /\ probe.out = EmptyRecord
  /\ DOMAIN logs[1].record = {1, 2}
  /\ logs[1].record[1].actions = 2 /\ logs[1].total_actions = 2

\* the candidate x satisfies every bound that is set
WithinBounds(x, lower, upper) ==
  /\ lower # <<>> => x >= lower[1]
  /\ upper # <<>> => x <= upper[1]

\* C18: for every batch of 10 candidates and every setting of the two bounds,
\* pull returns the first candidate in batch order that satisfies every bound
\* that is set (every candidate does when none is set), so the reward returned
\* is within the bounds; when no candidate of the batch qualifies, pull does
\* not return a reward: it raises IndexError.
C18_TruncatedPull ==
  probe.fn = "pull"
    => LET batch == probe.in.batch
           ok == {i \in 1..Len(batch) :
                    WithinBounds(batch[i], probe.in.lower, probe.in.upper)}
       IN  /\ Len(batch) = 10
           /\ ok = {} => probe.out.err = "IndexError"
           /\ ok # {}
                => /\ probe.out.err = "none"
                   /\ WithinBounds(probe.out.reward, probe.in.lower, probe.in.upper)
                   /\ \E i \in ok :
                        /\ \A j \in ok : i <= j
                        /\ probe.out.reward = batch[i]

\* with both bounds set, pull has passed over a candidate below the lower
\* bound and one above the upper bound and returned the third
C18_Witness ==
  /\ probe.fn = "pull" /\ probe.out.err = "none"
  /\ probe.in.lower = <<0>> /\ probe.in.upper = <<0>>
  /\ probe.in.batch[1] = 0 - 1 /\ probe.in.batch[2] = 1 /\ probe.in.batch[3] = 0
  /\ probe.out.reward = 0

\* C19: when compare_agents reaches an agent whose ledger, after bind and
\* initialise, already holds iterations pulls or more, take_actions is given
\* a count N <= 0: its loop makes no take_action call and raises nothing, the
\* ledger stays as initialisation left it, and compare_agents goes on to the
\* next agent or returns; total_actions may then exceed iterations.
C19_NonPositiveBudget ==
  /\ [][(run.pc = "budget" /\ run.iterations <= logs[Current].total_actions)
          => /\ run'.pc = "loop" /\ run'.left = 0
             /\ run'.budget[run.i] = run.iterations - logs[Current].total_actions
             /\ logs' = logs]_vars
  /\ [][(run.pc = "loop" /\ run.budget[run.i] <= 0)
          => /\ logs' = logs /\ agents' = agents /\ last' = last
             /\ run'.taken = run.taken
             /\ run'.pc \in {"bind", "returned"}]_vars
  /\ [](\A k \in 1..Len(run.order) :
          (TakeActionsDone(k) /\ run.budget[k] <= 0)
            => /\ run.taken[k] = 0
               /\ logs[run.order[k]].total_actions = run.iterations - run.budget[k]
               /\ logs[run.order[k]].total_actions >= run.iterations)

\* compare_agents has returned having made no take_action call for an agent
\* whose initialisation alone went past iterations
C19_Witness ==
  /\ run.pc = "returned"
  /\ \E k \in 1..Len(run.order) :
       /\ run.budget[k] < 0 /\ run.taken[k] = 0
       /\ logs[run.order[k]].total_actions > run.iterations
       /\ run.iterations > 0
====
